---------------------------- MODULE Spec2Model ----------------------------
(***************************************************************************)
(* A model of the UIDAI metrics pipeline:                                  *)
(*   scripts/metrics.py        MetricsCalculator, InsightGenerator         *)
(*   scripts/data_processor.py DataProcessor                               *)
(*   scripts/auto_pipeline.py  the watcher loop                            *)
(*                                                                         *)
(* Floating point values are carried in fixed point: a ratio r is the      *)
(* integer r * Scale, a z-score or MSI score s is the integer s * ZScale.  *)
(* A dict is modelled as the sequence of its items in insertion order.     *)
(* A region key "state|district|pincode" is the tuple of its three parts.  *)
(***************************************************************************)
EXTENDS Integers, Sequences, FiniteSets, TLC

VARIABLES
    \* MetricsCalculator (metrics.py)
    history,            \* self.history: region key -> list of counters
    aggregated_data,    \* argument of the last compute_msi call
    msi_results,        \* return value of the last compute_msi call
    calls,              \* number of compute_msi calls made so far
    \* DataProcessor.compute_all_metrics (data_processor.py)
    enrolment_data,     \* argument: period -> {region key: enrolment sums}
    demographic_data,   \* argument: period -> {region key: demographic sums}
    biometric_data,     \* argument: period -> {region key: biometric sums}
    all_periods,        \* the sorted list of periods
    idx,                \* number of periods the loop has processed
    pc,                 \* "loop" inside the for loop, "done" after the return
    previous_enrolment, \* the merged snapshot of the preceding period
    historical_bio,     \* region key -> list of total biometric loads
    results,            \* the results dict being filled
    \* MetricsCalculator.compute_mbu_load called on its own (metrics.py)
    mbu_args,           \* its arguments biometric_data, historical_avg, period
    mbu_results,        \* its return value
    \* InsightGenerator.generate_insights called on its own (metrics.py)
    insight_args,       \* its arguments
    insight_results,    \* its return value
    \* MetricsCalculator.compute_demand_proxies called on its own (metrics.py)
    demand_args,        \* its arguments current_data, previous_data, period
    demand_results,     \* the values it has returned
    \* DataProcessor.aggregate_by_period_and_region (data_processor.py)
    agg_args,           \* the batches the loader yields, and period_type
    agg_results,        \* the values it has returned
    \* auto_pipeline.py main and the data_processor.py process it starts
    fs_mtime,           \* latest modification time of the watched CSV files
    last_mtime,         \* main: last_mtime
    current_mtime,      \* main: current_mtime
    wpc,                \* main: "sleep", "wait" (in subprocess.run), "stopped"
    running,            \* number of data_processor.py processes alive
    ppc,                \* position of the data_processor.py process
    returncode,         \* exit code of the last data_processor.py process
    loaded,             \* version of the data the process has aggregated
    metrics_json,       \* version of the data in public/data/metrics.json
    summary_json,       \* version of the data in public/data/summary.json
    states_json         \* version of the data in public/data/states.json

msiVars == <<history, aggregated_data, msi_results, calls>>

pipeVars == <<enrolment_data, demographic_data, biometric_data, all_periods,
              idx, pc, previous_enrolment, historical_bio, results>>

mbuVars == <<mbu_args, mbu_results>>

insVars == <<insight_args, insight_results>>

demVars == <<demand_args, demand_results>>

aggVars == <<agg_args, agg_results>>

outputFiles == <<metrics_json, summary_json, states_json>>

watchVars == <<fs_mtime, last_mtime, current_mtime, wpc, running, ppc,
               returncode, loaded, outputFiles>>

vars == <<msiVars, pipeVars, mbuVars, insVars, demVars, aggVars, watchVars>>

-----------------------------------------------------------------------------
(* Bounds of the model *)

MaxCalls == 3
MaxPeriods == 4

-----------------------------------------------------------------------------
(* Fixed point arithmetic *)

Scale == 10 ^ 3
ZScale == 10 ^ 4

\* a / b rounded to the nearest integer, b > 0
RDiv(a, b) == (2 * a + b) \div (2 * b)

RECURSIVE SqrtSearch(_, _, _)
SqrtSearch(n, lo, hi) ==
    IF lo >= hi THEN lo
    ELSE LET mid == (lo + hi + 1) \div 2
         IN  IF mid * mid <= n THEN SqrtSearch(n, mid, hi)
                               ELSE SqrtSearch(n, lo, mid - 1)

\* floor of the square root of n >= 0
Isqrt(n) == SqrtSearch(n, 0, IF n < 46340 THEN n ELSE 46340)

RECURSIVE SeqSum(_)
SeqSum(s) == IF s = <<>> THEN 0 ELSE Head(s) + SeqSum(Tail(s))

Max(a, b) == IF a >= b THEN a ELSE b
Min(a, b) == IF a <= b THEN a ELSE b
Abs(a) == IF a < 0 THEN -a ELSE a

\* round(x, 3) of a value held in ZScale units: to the nearest multiple of
\* ZScale / 1000, a tie going to the even neighbour
RoundTo(x, step) ==
    LET q == x \div step
        r == x % step
    IN  IF 2 * r < step THEN q * step
        ELSE IF 2 * r > step THEN (q + 1) * step
        ELSE IF q % 2 = 0 THEN q * step ELSE (q + 1) * step

Round3(x) == RoundTo(x, ZScale \div 1000)

\* a demand proxy d is the integer d * DScale; round(x, 4) of such a value
DScale == 10 ^ 5
Round4(x) == RoundTo(x, DScale \div 10000)

\* a / b rounded to the nearest integer, for a of either sign and b > 0
SDiv(a, b) == IF a >= 0 THEN RDiv(a, b) ELSE -RDiv(-a, b)

-----------------------------------------------------------------------------
(* Region keys *)

RegionA == <<"S1", "D1", "P1">>
RegionB == <<"S1", "D2", "P2">>
RegionC == <<"S2", "D3", "P3">>
Regions == {RegionA, RegionB, RegionC}

\* region_key.split("|")[0]
StateOf(region_key) == region_key[1]

\* the keys of a dict, in insertion order
Keys(d) == [i \in 1..Len(d) |-> d[i].region_key]
KeySet(d) == {d[i].region_key : i \in 1..Len(d)}
HasKey(d, k) == \E i \in 1..Len(d) : d[i].region_key = k
Item(d, k) == d[CHOOSE i \in 1..Len(d) : d[i].region_key = k]
\* d.get(k, {}).get(f, 0)
Field(d, k, f) == IF HasKey(d, k) THEN Item(d, k)[f] ELSE 0

-----------------------------------------------------------------------------
(* metrics.py: compute_zscore *)

\* n * (value - mean(values)), exact in integers
Deviation(value, values) == Len(values) * value - SeqSum(values)

\* n * stdev(values): the sample standard deviation (divisor n - 1)
stdev(values) ==
    LET sq == [i \in 1..Len(values) |->
                 Deviation(values[i], values) * Deviation(values[i], values)]
    IN  Isqrt(SeqSum(sq) \div (Len(values) - 1))

\* value / std without the two guards, the mean not subtracted
ZscoreUncentred(value, values) ==
    IF Len(values) < 2 \/ stdev(values) = 0 THEN value * (ZScale \div Scale)
    ELSE RDiv(Len(values) * value * ZScale, stdev(values))

compute_zscore(value, values) ==
    IF Len(values) < 2 THEN 0
    ELSE LET std == stdev(values)
         IN  IF std = 0 THEN 0
             ELSE LET dev == Deviation(value, values)
                  IN  IF dev >= 0 THEN RDiv(dev * ZScale, std)
                                  ELSE -RDiv((-dev) * ZScale, std)

-----------------------------------------------------------------------------
(* metrics.py: MetricsCalculator.compute_msi *)

MSI_STABLE_THRESHOLD == 1 * ZScale
MSI_WATCH_THRESHOLD == 2 * ZScale
CONSECUTIVE_PERIODS_FOR_CRITICAL == 3

\* first pass: the three value lists over all regions of the period
address_rates(data) == [i \in 1..Len(data) |-> data[i].address_update_rate]
adult_growths(data) == [i \in 1..Len(data) |-> data[i].adult_enrolment_growth]
declines(data) == [i \in 1..Len(data) |-> data[i].enrolment_decline]

addr_z(data, i) == compute_zscore(data[i].address_update_rate, address_rates(data))
adult_z(data, i) == compute_zscore(data[i].adult_enrolment_growth, adult_growths(data))
\* the z-score of the decline with its sign turned
DeclineZNegated(data, i) ==
    -compute_zscore(data[i].enrolment_decline, declines(data))

decline_z(data, i) == compute_zscore(data[i].enrolment_decline, declines(data))

\* msi_score = addr_z + adult_z - decline_z, before rounding
msi_score(data, i) == addr_z(data, i) + adult_z(data, i) - decline_z(data, i)

PrevCountFromLength(h, region_key) == Len(h[region_key])

\* prev_count = self.history[region_key][-1] if self.history[region_key] else 0
prev_count(h, region_key) ==
    IF h[region_key] # <<>> THEN h[region_key][Len(h[region_key])] ELSE 0

ConsecutiveNoReset(h, region_key, msi) == prev_count(h, region_key) + 1

consecutive(h, region_key, msi) ==
    IF msi >= MSI_WATCH_THRESHOLD THEN prev_count(h, region_key) + 1 ELSE 0

ClassifyByScoreOnly(msi, consec) ==
    IF msi >= MSI_WATCH_THRESHOLD THEN "Critical"
    ELSE IF msi >= MSI_STABLE_THRESHOLD THEN "Watch"
    ELSE "Stable"

classification(msi, consec) ==
    IF msi >= MSI_WATCH_THRESHOLD /\ consec >= CONSECUTIVE_PERIODS_FOR_CRITICAL
    THEN "Critical"
    ELSE IF msi >= MSI_STABLE_THRESHOLD THEN "Watch"
    ELSE "Stable"

\* the MSIResult appended for the i-th region of the snapshot
MSIResult(h, data, i, period) ==
    LET az == addr_z(data, i)
        gz == adult_z(data, i)
        dz == decline_z(data, i)
        msi == az + gz - dz
        consec == consecutive(h, data[i].region_key, msi)
    IN  [region_key |-> data[i].region_key,
         period |-> period,
         msi_score |-> Round3(msi),
         classification |-> classification(msi, consec),
         address_update_zscore |-> Round3(az),
         adult_enrolment_zscore |-> Round3(gz),
         enrolment_decline_zscore |-> Round3(dz),
         consecutive_watch_periods |-> consec]

\* self.history[region_key].append(consecutive), for every region of the
\* snapshot; res holds the MSIResult of each
HistoryAfter(h, res) ==
    [r \in DOMAIN h |->
        IF HasKey(res, r)
        THEN Append(h[r], Item(res, r).consecutive_watch_periods)
        ELSE h[r]]

\* sorted(..., reverse=True) and list.sort(..., reverse=True) are stable: the
\* elements of s by decreasing key, elements of equal key in their order in s.
\* keys[i] is the key of s[i].
RECURSIVE InsertDesc(_, _, _)
InsertDesc(i, ixs, keys) ==
    IF ixs = <<>> THEN <<i>>
    ELSE IF keys[Head(ixs)] >= keys[i]
         THEN <<Head(ixs)>> \o InsertDesc(i, Tail(ixs), keys)
         ELSE <<i>> \o ixs

RECURSIVE SortIndexDesc(_, _)
SortIndexDesc(n, keys) ==
    IF n = 0 THEN <<>> ELSE InsertDesc(n, SortIndexDesc(n - 1, keys), keys)

SortedDescByReversal(s, keys) ==
    LET asc == SortIndexDesc(Len(s), [k \in 1..Len(s) |-> -keys[k]])
    IN  [k \in 1..Len(s) |-> s[asc[Len(s) + 1 - k]]]

SortedDesc(s, keys) ==
    LET ixs == SortIndexDesc(Len(s), keys)
    IN  [k \in 1..Len(s) |-> s[ixs[k]]]

compute_msi(h, data, period) ==
    LET res == [i \in 1..Len(data) |-> MSIResult(h, data, i, period)]
    IN  SortedDesc(res, [i \in 1..Len(res) |-> res[i].msi_score])

-----------------------------------------------------------------------------
(* metrics.py: compute_growth_rate, MetricsCalculator.compute_demand_proxies *)

\* compute_growth_rate with 0.0 for every zero previous value
GrowthZeroAtZeroPrevious(current, previous) ==
    IF previous = 0 THEN 0
    ELSE SDiv((current - previous) * DScale, previous)

compute_growth_rate(current, previous) ==
    IF previous = 0 THEN (IF current = 0 THEN 0 ELSE DScale)
    ELSE SDiv((current - previous) * DScale, previous)

NetSettlementUnclamped(adult_growth) == adult_growth

\* net settlement gain (line 185)
net_settlement(adult_growth) == Max(0, adult_growth)

\* the DemandProxy of the i-th region of current_data
DemandProxy(current_data, previous_data, i, period) ==
    LET curr == current_data[i]
        k == curr.region_key
        curr_child == curr.age_0_5 + curr.age_5_17
        prev_child == Field(previous_data, k, "age_0_5")
                        + Field(previous_data, k, "age_5_17")
        child_growth == compute_growth_rate(curr_child, prev_child)
        curr_adult == curr.age_18_greater
        prev_adult == Field(previous_data, k, "age_18_greater")
        adult_growth == compute_growth_rate(curr_adult, prev_adult)
        demo_total == curr.demo_age_5_17 + curr.demo_age_17_
        address_intensity == RDiv(curr.demo_age_17_ * DScale, Max(demo_total, 1))
    IN  [region_key |-> k,
         period |-> period,
         school_demand |-> Round4(child_growth + net_settlement(adult_growth)),
         housing_transport_demand |-> Round4(adult_growth + address_intensity),
         child_growth_rate |-> Round4(child_growth),
         adult_growth_rate |-> Round4(adult_growth),
         address_intensity |-> Round4(address_intensity)]

compute_demand_proxies(current_data, previous_data, period) ==
    [i \in 1..Len(current_data) |->
        DemandProxy(current_data, previous_data, i, period)]

-----------------------------------------------------------------------------
(* metrics.py: MetricsCalculator.compute_mbu_load *)

\* historical_avg.get(region_key, total_load), in Scale units
AvgOrTotal(historical_avg, region_key, total_load) ==
    IF region_key \in DOMAIN historical_avg THEN historical_avg[region_key]
    ELSE total_load * Scale

\* the division guarded by max(avg, 1) in place of the test avg > 0
BacklogSignalMaxGuard(total_load, avg) ==
    RDiv(total_load * Scale * ZScale, Max(avg, 1)) - ZScale

\* (total_load / avg) - 1 if avg > 0 else 0.0, in ZScale units
backlog_signal(total_load, avg) ==
    IF avg > 0 THEN RDiv(total_load * Scale * ZScale, avg) - ZScale ELSE 0

\* the MBULoad appended for the i-th region, its rank not yet set
MBULoad(biometric, historical_avg, i, period) ==
    LET data == biometric[i]
        total_load == data.bio_age_5_17 + data.bio_age_17_
        avg == AvgOrTotal(historical_avg, data.region_key, total_load)
    IN  [region_key |-> data.region_key,
         period |-> period,
         total_mbu_load |-> total_load,
         age_5_17_load |-> data.bio_age_5_17,
         backlog_signal |-> Round3(backlog_signal(total_load, avg)),
         priority_rank |-> 0]

\* result.priority_rank = i + 1 for the i-th (0-based) sorted result
priority_rank(sorted, i) == i

\* sorting ascending and reversing the list
SortByLoadThenReverse(res) ==
    LET rev == [i \in 1..Len(res) |-> res[Len(res) + 1 - i]]
    IN  SortedDesc(rev, [i \in 1..Len(rev) |-> rev[i].total_mbu_load])

\* results.sort(key=lambda x: x.total_mbu_load, reverse=True)
sort_by_load(res) ==
    SortedDesc(res, [i \in 1..Len(res) |-> res[i].total_mbu_load])

compute_mbu_load(biometric, historical_avg, period) ==
    LET res == [i \in 1..Len(biometric) |->
                  MBULoad(biometric, historical_avg, i, period)]
        sorted == sort_by_load(res)
    IN  [i \in 1..Len(sorted) |->
            [sorted[i] EXCEPT !.priority_rank = priority_rank(sorted, i)]]

-----------------------------------------------------------------------------
(* metrics.py: InsightGenerator.  A confidence c is the integer c * DScale. *)

DefaultTopN == 10

\* s[:n]
Take(s, n) == SubSeq(s, 1, Min(n, Len(s)))

\* [x for x in s if x.region_key.split("|")[0] == state]
OfState(s, state) == SelectSeq(s, LAMBDA x : StateOf(x.region_key) = state)

\* "{district}, {state} ({pincode})"
format_region(region_key) == <<region_key[2], region_key[1], region_key[3]>>

\* round(min(0.7, abs(msi) / 4) + min(0.3, consecutive * 0.1), 2)
ConfidenceUnclamped(msi, consec) ==
    LET base == RDiv(Abs(msi) * (DScale \div ZScale), 4)
        duration_bonus == consec * (DScale \div 10)
    IN  RoundTo(base + duration_bonus, DScale \div 100)

compute_confidence(msi, consec) ==
    LET base == Min(((7 * DScale) \div 10),
                    RDiv(Abs(msi) * (DScale \div ZScale), 4))
        duration_bonus == Min(((3 * DScale) \div 10), consec * (DScale \div 10))
    IN  RoundTo(base + duration_bonus, DScale \div 100)

CriticalInsights(state_msi) ==
    LET critical == SelectSeq(state_msi, LAMBDA r : r.classification = "Critical")
        top == Take(critical, 3)
    IN  [i \in 1..Len(top) |->
            [indicator |-> "MSI (Critical)",
             region |-> format_region(top[i].region_key),
             department |-> "Labour/Welfare",
             impact |-> "High",
             confidence |-> compute_confidence(top[i].msi_score,
                                top[i].consecutive_watch_periods)]]

SchoolInsights(state_demand) ==
    LET high_school ==
            Take(SortedDesc(state_demand,
                   [i \in 1..Len(state_demand) |-> state_demand[i].school_demand]), 3)
        over == SelectSeq(high_school, LAMBDA d : d.school_demand > DScale \div 10)
    IN  [i \in 1..Len(over) |->
            [indicator |-> "School Demand Proxy",
             region |-> format_region(over[i].region_key),
             department |-> "Education",
             impact |-> IF over[i].school_demand < ((2 * DScale) \div 10)
                        THEN "Medium" ELSE "High",
             confidence |-> Min(((9 * DScale) \div 10),
                                ((5 * DScale) \div 10) + Abs(over[i].school_demand))]]

HousingInsights(state_demand) ==
    LET high_housing ==
            Take(SortedDesc(state_demand,
                   [i \in 1..Len(state_demand) |->
                       state_demand[i].housing_transport_demand]), 2)
        over == SelectSeq(high_housing,
                    LAMBDA d : d.housing_transport_demand > ((15 * DScale) \div 100))
    IN  [i \in 1..Len(over) |->
            [indicator |-> "Housing/Transport Proxy",
             region |-> format_region(over[i].region_key),
             department |-> "Urban Development",
             impact |-> "Medium",
             confidence |-> Min(((85 * DScale) \div 100),
                                ((4 * DScale) \div 10)
                                  + Abs(over[i].housing_transport_demand))]]

BacklogInsights(state_mbu) ==
    LET high_backlog ==
            Take(SelectSeq(state_mbu,
                   LAMBDA r : r.backlog_signal > ((3 * ZScale) \div 10)), 2)
    IN  [i \in 1..Len(high_backlog) |->
            [indicator |-> "MBU Backlog Signal",
             region |-> format_region(high_backlog[i].region_key),
             department |-> "UIDAI Regional Office",
             impact |-> "Medium",
             confidence |-> Min(((9 * DScale) \div 10),
                                ((5 * DScale) \div 10)
                                  + high_backlog[i].backlog_signal
                                      * (DScale \div ZScale))]]

impact_order(impact) ==
    CASE impact = "High" -> 0 [] impact = "Medium" -> 1 [] impact = "Low" -> 2

SortKeyConfidenceOnly(x) == x.confidence

\* insights.sort(key=lambda x: (impact_order[x["impact"]], -x["confidence"])):
\* that ascending order is the descending order of this key
insight_sort_key(x) == x.confidence - 2 * DScale * impact_order(x.impact)

generate_insights(msi_res, demand_proxies, mbu_loads, state, top_n) ==
    LET state_msi == OfState(msi_res, state)
        state_demand == OfState(demand_proxies, state)
        state_mbu == OfState(mbu_loads, state)
        insights == CriticalInsights(state_msi) \o SchoolInsights(state_demand)
                      \o HousingInsights(state_demand) \o BacklogInsights(state_mbu)
        sorted == SortedDesc(insights,
                     [i \in 1..Len(insights) |-> insight_sort_key(insights[i])])
    IN  Take(sorted, top_n)

-----------------------------------------------------------------------------
(* data_processor.py: DataProcessor.compute_all_metrics *)

\* sorted(set(...)): the elements of a set of periods in increasing order
RECURSIVE sorted(_)
sorted(S) ==
    IF S = {} THEN <<>>
    ELSE LET m == CHOOSE x \in S : \A y \in S : x <= y
         IN  <<m>> \o sorted(S \ {m})

\* the periods that are keys of a dict period -> {region key: sums}
PeriodKeys(data) == {p \in DOMAIN data : data[p] # <<>>}

\* sum(prev.values()) of a merged record, in Scale units: its three derived
\* ratios and its raw counts (a count a record lacks adds nothing)
SumOfValues(rec) ==
    rec.address_update_rate + rec.adult_enrolment_growth + rec.enrolment_decline
      + Scale * (rec.age_0_5 + rec.age_5_17 + rec.age_18_greater
                   + rec.demo_age_5_17 + rec.demo_age_17_)

\* merged[region_key] of one period (lines 96-124)
MergedItem(region_key, enrol, demo, previous) ==
    LET total_enrol == Field(enrol, region_key, "age_0_5")
                         + Field(enrol, region_key, "age_5_17")
                         + Field(enrol, region_key, "age_18_greater")
        prev_adult == Field(previous, region_key, "age_18_greater")
        curr_adult == Field(enrol, region_key, "age_18_greater")
        prev_total == IF HasKey(previous, region_key)
                      THEN SumOfValues(Item(previous, region_key)) ELSE 0
    IN  [region_key |-> region_key,
         address_update_rate |->
             RDiv(Field(demo, region_key, "demo_age_17_") * Scale,
                  Max(total_enrol, 1)),
         adult_enrolment_growth |->
             IF prev_adult > 0
             THEN SDiv((curr_adult - prev_adult) * Scale, prev_adult) ELSE 0,
         enrolment_decline |->
             IF prev_total > 0
             THEN SDiv((prev_total - total_enrol * Scale) * Scale, prev_total)
             ELSE 0,
         age_0_5 |-> Field(enrol, region_key, "age_0_5"),
         age_5_17 |-> Field(enrol, region_key, "age_5_17"),
         age_18_greater |-> Field(enrol, region_key, "age_18_greater"),
         demo_age_5_17 |-> Field(demo, region_key, "demo_age_5_17"),
         demo_age_17_ |-> Field(demo, region_key, "demo_age_17_")]

\* the merged snapshot, its regions in the order the key set is iterated
Merged(order, enrol, demo, previous) ==
    [i \in 1..Len(order) |-> MergedItem(order[i], enrol, demo, previous)]

\* the orders in which iterating a set of keys can yield them
IterationOrders(S) ==
    {s \in [1..Cardinality(S) -> S] : \A i, j \in 1..Cardinality(S) :
                                        i # j => s[i] # s[j]}

\* historical_bio after the loop of lines 135-137
HistoricalBioLastTwo(hb, bio) ==
    [r \in DOMAIN hb |->
        IF HasKey(bio, r)
        THEN LET all == Append(hb[r], Item(bio, r).bio_age_5_17
                                        + Item(bio, r).bio_age_17_)
             IN  SubSeq(all, Max(1, Len(all) - 1), Len(all))
        ELSE hb[r]]

HistoricalBioAfter(hb, bio) ==
    [r \in DOMAIN hb |->
        IF HasKey(bio, r)
        THEN Append(hb[r], Item(bio, r).bio_age_5_17 + Item(bio, r).bio_age_17_)
        ELSE hb[r]]

\* {k: sum(v) / len(v) for k, v in historical_bio.items() if v}, Scale units
historical_avg(hb) ==
    [r \in {k \in DOMAIN hb : hb[k] # <<>>} |->
        RDiv(SeqSum(hb[r]) * Scale, Len(hb[r]))]

PreviousNeverStored(merged, enrol) == <<>>

\* previous_enrolment = dict(merged) (line 156)
StoreForNextIteration(merged, enrol) == merged

\* the body of the loop over all_periods (lines 88-156)
ProcessPeriod ==
    /\ pc = "loop"
    /\ idx < Len(all_periods)
    /\ LET period == all_periods[idx + 1]
           enrol == enrolment_data[period]
           demo == demographic_data[period]
           bio == biometric_data[period]
       IN  \E order \in IterationOrders(KeySet(enrol) \cup KeySet(demo)) :
           \E merged \in {Merged(order, enrol, demo, previous_enrolment)} :
           \E msi \in {compute_msi(history, merged, period)} :
           \E demand \in {compute_demand_proxies(merged, previous_enrolment, period)} :
           \E hb \in {HistoricalBioAfter(historical_bio, bio)} :
           \E mbu \in {compute_mbu_load(bio, historical_avg(hb), period)} :
             /\ aggregated_data' = merged
             /\ msi_results' = msi
             /\ history' = HistoryAfter(history, msi)
             /\ calls' = calls + 1
             /\ historical_bio' = hb
             /\ results' =
                  [msi |-> Append(results.msi, [period |-> period, rows |-> msi]),
                   demand_proxies |->
                       Append(results.demand_proxies,
                              [period |-> period, rows |-> demand]),
                   mbu_load |->
                       Append(results.mbu_load, [period |-> period, rows |-> mbu]),
                   insights_by_state |->
                       results.insights_by_state \cup
                         {[state |-> st, period |-> period,
                           insights |-> generate_insights(msi, demand, mbu, st,
                                                          DefaultTopN)]
                          : st \in {StateOf(msi[i].region_key) : i \in 1..Len(msi)}}]
             /\ previous_enrolment' = StoreForNextIteration(merged, enrol)
    /\ idx' = idx + 1
    /\ UNCHANGED <<enrolment_data, demographic_data, biometric_data, all_periods, pc>>
    /\ UNCHANGED <<mbuVars, insVars, watchVars, demVars, aggVars>>

\* return results (line 158)
ReturnResults ==
    /\ pc = "loop"
    /\ idx = Len(all_periods)
    /\ pc' = "done"
    /\ UNCHANGED <<msiVars, enrolment_data, demographic_data, biometric_data,
                   all_periods, idx, previous_enrolment, historical_bio, results>>
    /\ UNCHANGED <<mbuVars, insVars, watchVars, demVars, aggVars>>

-----------------------------------------------------------------------------
(* The parts of the state a specification does not use *)

\* a truncated or partly written file
Truncated == -1

\* compute_mbu_load is not called on its own
MbuIdle ==
    /\ mbu_args = <<>>
    /\ mbu_results = <<>>

\* compute_demand_proxies is not called on its own
DemIdle ==
    /\ demand_args = <<>>
    /\ demand_results = <<>>

\* aggregate_by_period_and_region is not called
AggIdle ==
    /\ agg_args = <<>>
    /\ agg_results = <<>>

\* generate_insights is not called on its own
InsIdle ==
    /\ insight_args = <<>>
    /\ insight_results = <<>>

\* the watcher is not started
WatchIdle ==
    /\ fs_mtime = 0
    /\ last_mtime = 0
    /\ current_mtime = 0
    /\ wpc = "idle"
    /\ running = 0
    /\ ppc = "none"
    /\ returncode = 0
    /\ loaded = 0
    /\ metrics_json = 0
    /\ summary_json = 0
    /\ states_json = 0

\* no MetricsCalculator is in use
MsiIdle ==
    /\ history = [r \in Regions |-> <<>>]
    /\ aggregated_data = <<>>
    /\ msi_results = <<>>
    /\ calls = 0

-----------------------------------------------------------------------------
(* Inputs of compute_all_metrics *)

Periods == 1..MaxPeriods

EnrolItem(r, a, b, c) ==
    [region_key |-> r, age_0_5 |-> a, age_5_17 |-> b, age_18_greater |-> c]
DemoItem(r, a, b) == [region_key |-> r, demo_age_5_17 |-> a, demo_age_17_ |-> b]
BioItem(r, a, b) == [region_key |-> r, bio_age_5_17 |-> a, bio_age_17_ |-> b]

\* one period of each input dict; <<>> when the dict has no such period
EnrolOptions ==
    {<<>>, <<EnrolItem(RegionC, 0, 0, 2)>>,
     <<EnrolItem(RegionA, 1, 0, 0), EnrolItem(RegionC, 0, 0, 1)>>}
DemoOptions == {<<>>, <<DemoItem(RegionA, 0, 1)>>}

PeriodInputs ==
    {[enrol |-> e, demo |-> d, bio |-> <<>>] : e \in EnrolOptions, d \in DemoOptions}

\* the state on entry to the loop (lines 71-86), on a fresh DataProcessor
InitOn(Family) ==
    /\ \E f \in [Periods -> Family] :
          /\ enrolment_data = [p \in Periods |-> f[p].enrol]
          /\ demographic_data = [p \in Periods |-> f[p].demo]
          /\ biometric_data = [p \in Periods |-> f[p].bio]
    /\ all_periods = sorted(PeriodKeys(enrolment_data) \cup PeriodKeys(demographic_data)
                               \cup PeriodKeys(biometric_data))
    /\ idx = 0
    /\ pc = "loop"
    /\ previous_enrolment = <<>>
    /\ historical_bio = [r \in Regions |-> <<>>]
    /\ results = [msi |-> <<>>, demand_proxies |-> <<>>, mbu_load |-> <<>>,
                  insights_by_state |-> {}]
    /\ history = [r \in Regions |-> <<>>]
    /\ aggregated_data = <<>>
    /\ msi_results = <<>>
    /\ calls = 0
    /\ MbuIdle
    /\ InsIdle
    /\ DemIdle
    /\ AggIdle
    /\ WatchIdle

Init == InitOn(PeriodInputs)

Next == ProcessPeriod \/ ReturnResults

Spec == Init /\ [][Next]_vars

-----------------------------------------------------------------------------
(* Inputs of compute_msi: snapshots over MsiRegions with ratios in RatioVals *)

MsiRegions == {RegionA, RegionB}
RatioVals == {0, Scale}

\* the sequences of distinct elements of S
Orderings(S) ==
    UNION {{s \in [1..n -> S] : \A i, j \in 1..n : i # j => s[i] # s[j]}
           : n \in 0..Cardinality(S)}

SnapshotItem(r, a, g, d) ==
    [region_key |-> r, address_update_rate |-> a,
     adult_enrolment_growth |-> g, enrolment_decline |-> d,
     age_0_5 |-> 0, age_5_17 |-> 0, age_18_greater |-> 0,
     demo_age_5_17 |-> 0, demo_age_17_ |-> 0]

RatioTriples == RatioVals \X RatioVals \X RatioVals

Snapshots ==
    UNION {{[i \in 1..Len(o) |-> SnapshotItem(o[i], t[i][1], t[i][2], t[i][3])]
            : t \in [1..Len(o) -> RatioTriples]}
           : o \in Orderings(MsiRegions)}

-----------------------------------------------------------------------------
(* SpecMsi: a sequence of compute_msi calls on one MetricsCalculator *)

\* the pipeline is not running
PipeIdle ==
    /\ enrolment_data = <<>>
    /\ demographic_data = <<>>
    /\ biometric_data = <<>>
    /\ all_periods = <<>>
    /\ idx = 0
    /\ pc = "idle"
    /\ previous_enrolment = <<>>
    /\ historical_bio = [r \in Regions |-> <<>>]
    /\ results = [msi |-> <<>>, demand_proxies |-> <<>>, mbu_load |-> <<>>,
                  insights_by_state |-> {}]

InitMsi ==
    /\ history = [r \in Regions |-> <<>>]
    /\ aggregated_data = <<>>
    /\ msi_results = <<>>
    /\ calls = 0
    /\ PipeIdle
    /\ MbuIdle
    /\ InsIdle
    /\ DemIdle
    /\ AggIdle
    /\ WatchIdle

ComputeMsi ==
    /\ calls < MaxCalls
    /\ \E data \in Snapshots :
        /\ aggregated_data' = data
        /\ msi_results' = compute_msi(history, data, calls + 1)
        /\ history' = HistoryAfter(history, msi_results')
    /\ calls' = calls + 1
    /\ UNCHANGED <<pipeVars, mbuVars, insVars, watchVars, demVars, aggVars>>

NextMsi == ComputeMsi

SpecMsi == InitMsi /\ [][NextMsi]_vars

-----------------------------------------------------------------------------
(* SpecSample: compute_msi calls on two-region snapshots whose ratios are  *)
(* those of the sample run of metrics.py (lines 356-377)                   *)

SampleRatios ==
    {(15 * Scale) \div 100, (25 * Scale) \div 100}
      \X {(8 * Scale) \div 100, (12 * Scale) \div 100}
      \X {(2 * Scale) \div 100, -((5 * Scale) \div 100)}

SampleSnapshots ==
    {<<SnapshotItem(o[1], t[1], t[2], t[3]), SnapshotItem(o[2], u[1], u[2], u[3])>>
       : o \in {<<RegionA, RegionB>>, <<RegionB, RegionA>>},
         t \in SampleRatios, u \in SampleRatios}

ComputeSample ==
    /\ calls < MaxCalls
    /\ \E data \in SampleSnapshots :
        /\ aggregated_data' = data
        /\ msi_results' = compute_msi(history, data, calls + 1)
        /\ history' = HistoryAfter(history, msi_results')
    /\ calls' = calls + 1
    /\ UNCHANGED <<pipeVars, mbuVars, insVars, watchVars, demVars, aggVars>>

NextSample == ComputeSample

SpecSample == InitMsi /\ [][NextSample]_vars

-----------------------------------------------------------------------------
(* SpecBio: compute_all_metrics on inputs with biometric data *)

BioOptions ==
    {[enrol |-> <<>>, demo |-> <<>>, bio |-> <<>>],
     [enrol |-> <<EnrolItem(RegionA, 1, 0, 0)>>, demo |-> <<>>, bio |-> <<>>],
     [enrol |-> <<>>, demo |-> <<>>, bio |-> <<BioItem(RegionC, 1, 0)>>],
     [enrol |-> <<>>, demo |-> <<>>, bio |-> <<BioItem(RegionC, 1, 2)>>],
     [enrol |-> <<>>, demo |-> <<>>,
      bio |-> <<BioItem(RegionA, 0, 0), BioItem(RegionC, 1, 0)>>],
     [enrol |-> <<EnrolItem(RegionA, 1, 0, 0)>>, demo |-> <<>>,
      bio |-> <<BioItem(RegionA, 1, 1)>>]}

InitBio == InitOn(BioOptions)

SpecBio == InitBio /\ [][Next]_vars

-----------------------------------------------------------------------------
(* SpecDiv: compute_all_metrics on inputs with zero totals and zero loads *)

DivOptions ==
    {[enrol |-> <<>>, demo |-> <<>>, bio |-> <<>>],
     [enrol |-> <<EnrolItem(RegionC, 0, 0, 2)>>,
      demo |-> <<DemoItem(RegionA, 0, 1)>>,
      bio |-> <<BioItem(RegionA, 0, 0)>>],
     [enrol |-> <<EnrolItem(RegionA, 1, 0, 0), EnrolItem(RegionC, 0, 0, 1)>>,
      demo |-> <<DemoItem(RegionA, 0, 1)>>,
      bio |-> <<BioItem(RegionC, 1, 0)>>],
     [enrol |-> <<EnrolItem(RegionA, 0, 0, 0)>>,
      demo |-> <<DemoItem(RegionA, 0, 0)>>,
      bio |-> <<BioItem(RegionA, 0, 0)>>],
     [enrol |-> <<EnrolItem(RegionC, 0, 2, 0)>>, demo |-> <<>>,
      bio |-> <<BioItem(RegionC, 1, 2)>>]}

InitDiv == InitOn(DivOptions)

SpecDiv == InitDiv /\ [][Next]_vars

-----------------------------------------------------------------------------
(* SpecMbu: one compute_mbu_load call; mbu_results is the sequence of the  *)
(* values returned so far                                                  *)

MaxLoad == 1

BioCounts == (0..MaxLoad) \X (0..MaxLoad)

BiometricInputs ==
    UNION {{[i \in 1..Len(o) |-> BioItem(o[i], c[i][1], c[i][2])]
            : c \in [1..Len(o) -> BioCounts]}
           : o \in Orderings(Regions)}

HistoricalAvgInputs ==
    {[r \in {} |-> 0], [r \in {RegionA} |-> 0], [r \in Regions |-> Scale]}

InitMbu ==
    /\ \E b \in BiometricInputs, h \in HistoricalAvgInputs :
          mbu_args = [biometric_data |-> b, historical_avg |-> h, period |-> 1]
    /\ mbu_results = <<>>
    /\ MsiIdle
    /\ PipeIdle
    /\ InsIdle
    /\ DemIdle
    /\ AggIdle
    /\ WatchIdle

ComputeMbuLoad ==
    /\ mbu_args # <<>>
    /\ Len(mbu_results) = 0
    /\ mbu_results' =
          <<compute_mbu_load(mbu_args.biometric_data, mbu_args.historical_avg,
                             mbu_args.period)>>
    /\ UNCHANGED <<mbu_args, msiVars, pipeVars, insVars, watchVars, demVars, aggVars>>

NextMbu == ComputeMbuLoad

SpecMbu == InitMbu /\ [][NextMbu]_vars

-----------------------------------------------------------------------------
(* SpecIns: one generate_insights call; insight_results is the sequence of *)
(* the values returned so far                                              *)

MaxTopN == 2

MsiRow(r, class, score, consec) ==
    [region_key |-> r, period |-> 1, msi_score |-> score,
     classification |-> class, consecutive_watch_periods |-> consec]

DemandRow(r, school, housing) ==
    [region_key |-> r, period |-> 1, school_demand |-> school,
     housing_transport_demand |-> housing]

MbuRow(r, backlog) ==
    [region_key |-> r, period |-> 1, total_mbu_load |-> 1,
     backlog_signal |-> backlog]

\* what the three lists hold for region r
RowOptions(r) ==
    {[msi |-> m, demand |-> d, mbu |-> b] :
        m \in {<<>>, <<MsiRow(r, "Watch", 2 * ZScale, 1)>>,
               <<MsiRow(r, "Critical", 2 * ZScale, 3)>>,
               <<MsiRow(r, "Critical", 4 * ZScale, 3)>>},
        d \in {<<DemandRow(r, 0, 0)>>,
               <<DemandRow(r, (15 * DScale) \div 100, (2 * DScale) \div 10)>>,
               <<DemandRow(r, (3 * DScale) \div 10, 0)>>,
               <<DemandRow(r, (45 * DScale) \div 100, (3 * DScale) \div 10)>>},
        b \in {<<>>, <<MbuRow(r, 0)>>, <<MbuRow(r, (35 * ZScale) \div 100)>>}}

OtherStateOptions ==
    {[msi |-> <<>>, demand |-> <<>>, mbu |-> <<>>],
     [msi |-> <<MsiRow(RegionC, "Critical", 3 * ZScale, 3)>>,
      demand |-> <<DemandRow(RegionC, (3 * DScale) \div 10, (3 * DScale) \div 10)>>,
      mbu |-> <<MbuRow(RegionC, ZScale)>>]}

InsightInputs ==
    {[msi_results |-> c.msi \o a.msi \o b.msi,
      demand_proxies |-> a.demand \o c.demand \o b.demand,
      mbu_loads |-> b.mbu \o c.mbu \o a.mbu,
      state |-> s,
      top_n |-> n] :
        a \in RowOptions(RegionA), b \in RowOptions(RegionB),
        c \in OtherStateOptions, s \in {"S1", "S2"},
        n \in (0..MaxTopN) \cup {DefaultTopN}}

InitIns ==
    /\ insight_args \in InsightInputs
    /\ insight_results = <<>>
    /\ MsiIdle
    /\ PipeIdle
    /\ MbuIdle
    /\ DemIdle
    /\ AggIdle
    /\ WatchIdle

GenerateInsights ==
    /\ insight_args # <<>>
    /\ Len(insight_results) = 0
    /\ insight_results' =
          <<generate_insights(insight_args.msi_results,
                              insight_args.demand_proxies,
                              insight_args.mbu_loads, insight_args.state,
                              insight_args.top_n)>>
    /\ UNCHANGED <<insight_args, msiVars, pipeVars, mbuVars, watchVars, demVars, aggVars>>

NextIns == GenerateInsights

SpecIns == InitIns /\ [][NextIns]_vars

-----------------------------------------------------------------------------
(* auto_pipeline.py: main, with the data_processor.py process it starts.   *)
(* A modification time is a natural number; a data change gives a watched  *)
(* file a later modification time than any the directory had.  The content *)
(* of an output file is the modification time of the data it was computed  *)
(* from, or Truncated.                                                     *)

MaxMtime == 3

\* get_latest_mtime(base_path) (lines 14-33)
get_latest_mtime == fs_mtime

\* the watcher after starting the process: subprocess.run waits for its exit
AfterTriggerNoWait == "sleep"

AfterTrigger == "wait"

\* last_mtime after a run (lines 60-65)
WatermarkAlwaysAdvances(code, current, last) == current

WatermarkAfterRun(code, current, last) == IF code = 0 THEN current ELSE last

\* a CSV file is written in a watched directory
DataChange ==
    /\ wpc # "idle"
    /\ fs_mtime < MaxMtime
    /\ fs_mtime' = fs_mtime + 1
    /\ UNCHANGED <<last_mtime, current_mtime, wpc, running, ppc, returncode,
                   loaded, outputFiles>>
    /\ UNCHANGED <<msiVars, pipeVars, mbuVars, insVars, demVars, aggVars>>

\* one turn of the while loop up to subprocess.run (lines 44-56)
Poll ==
    /\ wpc = "sleep"
    /\ current_mtime' = get_latest_mtime
    /\ IF current_mtime' > last_mtime
       THEN /\ wpc' = AfterTrigger
            /\ running' = running + 1
            /\ ppc' = "aggregate"
       ELSE UNCHANGED <<wpc, running, ppc>>
    /\ UNCHANGED <<fs_mtime, last_mtime, returncode, loaded, outputFiles>>
    /\ UNCHANGED <<msiVars, pipeVars, mbuVars, insVars, demVars, aggVars>>

\* the process ends with exit code code
ProcessExits(code) ==
    /\ ppc' = "exited"
    /\ returncode' = code
    /\ running' = running - 1
    /\ loaded' = 0

\* export_to_json up to the summary (data_processor.py lines 216-235): it
\* succeeds, or raises FileNotFoundError, which __main__ catches to write
\* sample data elsewhere and end normally (lines 406-411), or raises
\* another exception, which ends the process with exit code 1
Aggregate ==
    /\ ppc = "aggregate"
    /\ \/ /\ loaded' = fs_mtime
          /\ ppc' = "metrics"
          /\ UNCHANGED <<returncode, running>>
       \/ ProcessExits(0)
       \/ ProcessExits(1)
    /\ UNCHANGED <<fs_mtime, last_mtime, current_mtime, wpc, outputFiles>>
    /\ UNCHANGED <<msiVars, pipeVars, mbuVars, insVars, demVars, aggVars>>

\* with open(path, "w") as f: json.dump(...): the file gets the new content,
\* or open fails and the file is as it was, or open has truncated the file
\* and the dump fails
WriteMetrics ==
    /\ ppc = "metrics"
    /\ \/ /\ metrics_json' = loaded
          /\ ppc' = "summary"
          /\ UNCHANGED <<returncode, running, loaded>>
       \/ /\ UNCHANGED metrics_json
          /\ ProcessExits(1)
       \/ /\ metrics_json' = Truncated
          /\ ProcessExits(1)
    /\ UNCHANGED <<fs_mtime, last_mtime, current_mtime, wpc, summary_json,
                   states_json>>
    /\ UNCHANGED <<msiVars, pipeVars, mbuVars, insVars, demVars, aggVars>>

WriteSummary ==
    /\ ppc = "summary"
    /\ \/ /\ summary_json' = loaded
          /\ ppc' = "states"
          /\ UNCHANGED <<returncode, running, loaded>>
       \/ /\ UNCHANGED summary_json
          /\ ProcessExits(1)
       \/ /\ summary_json' = Truncated
          /\ ProcessExits(1)
    /\ UNCHANGED <<fs_mtime, last_mtime, current_mtime, wpc, metrics_json,
                   states_json>>
    /\ UNCHANGED <<msiVars, pipeVars, mbuVars, insVars, demVars, aggVars>>

\* the last file; export_to_json then returns and the process ends normally
WriteStates ==
    /\ ppc = "states"
    /\ \/ /\ states_json' = loaded
          /\ ProcessExits(0)
       \/ /\ UNCHANGED states_json
          /\ ProcessExits(1)
       \/ /\ states_json' = Truncated
          /\ ProcessExits(1)
    /\ UNCHANGED <<fs_mtime, last_mtime, current_mtime, wpc, metrics_json,
                   summary_json>>
    /\ UNCHANGED <<msiVars, pipeVars, mbuVars, insVars, demVars, aggVars>>

\* subprocess.run returns; the rest of the turn (lines 58-65)
RunReturns ==
    /\ wpc = "wait"
    /\ ppc = "exited"
    /\ last_mtime' = WatermarkAfterRun(returncode, current_mtime, last_mtime)
    /\ wpc' = "sleep"
    /\ ppc' = "none"
    /\ UNCHANGED <<fs_mtime, current_mtime, running, returncode, loaded,
                   outputFiles>>
    /\ UNCHANGED <<msiVars, pipeVars, mbuVars, insVars, demVars, aggVars>>

\* KeyboardInterrupt (lines 67-68); raised inside subprocess.run, the
\* process is killed before the exception reaches main
Stop ==
    /\ wpc \in {"sleep", "wait"}
    /\ wpc' = "stopped"
    /\ IF running > 0
       THEN /\ ppc' = "exited"
            /\ returncode' = -9
            /\ running' = 0
            /\ loaded' = 0
       ELSE UNCHANGED <<ppc, returncode, running, loaded>>
    /\ UNCHANGED <<fs_mtime, last_mtime, current_mtime, outputFiles>>
    /\ UNCHANGED <<msiVars, pipeVars, mbuVars, insVars, demVars, aggVars>>

\* main up to the loop (lines 36-40), over a committed set of output files
InitWatch ==
    /\ fs_mtime \in {0, 1}
    /\ last_mtime = get_latest_mtime
    /\ current_mtime = 0
    /\ wpc = "sleep"
    /\ running = 0
    /\ ppc = "none"
    /\ returncode = 0
    /\ loaded = 0
    /\ metrics_json = 0
    /\ summary_json = 0
    /\ states_json = 0
    /\ MsiIdle
    /\ PipeIdle
    /\ MbuIdle
    /\ InsIdle
    /\ DemIdle
    /\ AggIdle

ProcessStep == Aggregate \/ WriteMetrics \/ WriteSummary \/ WriteStates

NextWatch == DataChange \/ Poll \/ ProcessStep \/ RunReturns \/ Stop

\* the loop keeps turning, the process keeps making steps, and subprocess.run
\* returns once the process has ended
SpecWatch ==
    /\ InitWatch
    /\ [][NextWatch]_vars
    /\ WF_vars(Poll)
    /\ WF_vars(ProcessStep)
    /\ WF_vars(RunReturns)

-----------------------------------------------------------------------------
(* Claims about compute_msi, checked under SpecMsi *)

\* C1: after every compute_msi call, the counter appended for a region of the
\* snapshot is the previously stored counter (0 when nothing was stored)
\* plus exactly 1 when the region's msi_score of the period is >= 2.0, and
\* is 0 when the msi_score is below 2.0.
C1_CounterStep ==
    \A i \in 1..Len(aggregated_data) :
        LET h == history[aggregated_data[i].region_key]
            stored == IF Len(h) >= 2 THEN h[Len(h) - 1] ELSE 0
            msi == msi_score(aggregated_data, i)
        IN  /\ Len(h) >= 1
            /\ msi >= 2 * ZScale => h[Len(h)] = stored + 1
            /\ msi < 2 * ZScale => h[Len(h)] = 0

\* a region whose counter went 1, 2 and was then reset to 0
C1_Witness ==
    \E i \in 1..Len(aggregated_data) :
        /\ history[aggregated_data[i].region_key] = <<1, 2, 0>>
        /\ msi_score(aggregated_data, i) < 2 * ZScale

\* C2: every MSIResult carries exactly one of the three classifications;
\* Critical only with msi_score >= 2.0 and consecutive_watch_periods >= 3,
\* Watch only with 1.0 <= msi_score < 2.0 or with msi_score >= 2.0 and a
\* counter below 3, Stable otherwise (the score compared is below 1.0).
C2_Classification ==
    \A k \in 1..Len(msi_results) :
        LET res == msi_results[k]
            i == CHOOSE j \in 1..Len(aggregated_data) :
                    aggregated_data[j].region_key = res.region_key
            raw == msi_score(aggregated_data, i)
        IN  /\ res.classification \in {"Critical", "Watch", "Stable"}
            /\ res.classification = "Critical" =>
                  /\ res.msi_score >= 2 * ZScale
                  /\ res.consecutive_watch_periods >= 3
            /\ res.classification = "Watch" =>
                  \/ res.msi_score >= ZScale /\ res.msi_score < 2 * ZScale
                  \/ /\ res.msi_score >= 2 * ZScale
                     /\ res.consecutive_watch_periods < 3
            /\ res.classification = "Stable" <=>
                  ~(raw >= 2 * ZScale /\ res.consecutive_watch_periods >= 3)
                  /\ ~(raw >= ZScale)

\* one period's results holding a Critical, and an earlier call having
\* returned Watch for a score >= 2.0 (the counter was below 3)
C2_Witness ==
    \E k \in 1..Len(msi_results) :
        /\ msi_results[k].classification = "Critical"
        /\ msi_results[k].consecutive_watch_periods = 3
        /\ \E j \in 1..Len(msi_results) : msi_results[j].classification = "Stable"

-----------------------------------------------------------------------------
(* Claims about compute_all_metrics, checked under Spec *)

\* the number of uninterrupted consecutive processed periods, ending at the
\* k-th, in whose MSI results the region has an msi_score >= 2.0
RECURSIVE RunLength(_, _)
RunLength(region_key, k) ==
    IF k = 0 THEN 0
    ELSE LET rows == results.msi[k].rows
         IN  IF HasKey(rows, region_key)
                  /\ Item(rows, region_key).msi_score >= 2 * ZScale
             THEN 1 + RunLength(region_key, k - 1)
             ELSE 0

\* C3: the consecutive_watch_periods reported for a region in a period is the
\* number of uninterrupted consecutive pipeline periods, ending at that
\* period, in which the region's MSI was >= 2.0; a period in which the region
\* is absent from the merged snapshot interrupts the run.
C3_CounterIsRunLength ==
    \A k \in 1..Len(results.msi) :
        \A i \in 1..Len(results.msi[k].rows) :
            LET row == results.msi[k].rows[i]
            IN  row.consecutive_watch_periods = RunLength(row.region_key, k)

\* C4: all_periods lists every period that is a key of any of the three
\* inputs, once, in strictly increasing order; the loop processes them in
\* that order and has processed all of them when it returns; and the
\* previous snapshot a period is merged against is the merged snapshot of
\* the period processed just before it (empty for the first).
C4_Order ==
    /\ \A i, j \in 1..Len(all_periods) : i < j => all_periods[i] < all_periods[j]
    /\ {all_periods[i] : i \in 1..Len(all_periods)}
         = PeriodKeys(enrolment_data) \cup PeriodKeys(demographic_data)
             \cup PeriodKeys(biometric_data)
    /\ idx <= Len(all_periods)
    /\ [k \in 1..Len(results.msi) |-> results.msi[k].period]
         = SubSeq(all_periods, 1, idx)
    /\ pc = "done" => idx = Len(all_periods)
    /\ previous_enrolment = aggregated_data
    /\ idx = 0 => previous_enrolment = <<>>

C4_Step ==
    idx' = idx + 1 =>
        aggregated_data' =
            Merged(Keys(aggregated_data'), enrolment_data[all_periods[idx']],
                   demographic_data[all_periods[idx']], aggregated_data)

-----------------------------------------------------------------------------
(* Claims about the watcher, checked under SpecWatch *)

C5_WatermarkStep ==
    /\ last_mtime' # last_mtime =>
          /\ wpc = "wait"
          /\ ppc = "exited"
          /\ returncode = 0
          /\ last_mtime' = current_mtime
    /\ wpc = "wait" => current_mtime' = current_mtime
    /\ (wpc = "wait" /\ wpc' = "sleep" /\ returncode # 0) =>
          /\ last_mtime' = last_mtime
          /\ last_mtime' < current_mtime'

\* the watcher is back in the loop after a run that failed
AfterFailedRun ==
    /\ wpc = "sleep"
    /\ returncode # 0

C5_RetryStep ==
    (AfterFailedRun /\ fs_mtime' = fs_mtime /\ wpc' \notin {wpc, "stopped"}) =>
        /\ current_mtime' > last_mtime
        /\ wpc' = "wait"
        /\ running' = 1
        /\ ppc' = "aggregate"

\* C5: last_mtime changes only when a run has returned exit code 0, and then
\* becomes the current_mtime observed before that run; a failed run leaves
\* it below current_mtime, the next poll starts the pipeline again, and so a
\* failed run is eventually retried (unless the watcher is stopped).
C5_WatermarkOnSuccessOnly ==
    /\ [][C5_WatermarkStep]_vars
    /\ [][C5_RetryStep]_vars
    /\ AfterFailedRun ~> (running = 1 \/ wpc = "stopped")

\* a retry is in flight after a failed run, above a watermark that an
\* earlier successful run advanced
C5_Witness ==
    /\ wpc = "wait"
    /\ running = 1
    /\ returncode = 1
    /\ last_mtime = 2
    /\ current_mtime = 3

\* C6: at most one data_processor.py process is alive at any time; a data
\* change that arrives while one is alive starts none, and is followed by a
\* run started after the change (unless the watcher is stopped).
C6_OneRunInFlight ==
    /\ [](running <= 1)
    /\ [][(running = 1 /\ fs_mtime' # fs_mtime) => running' = 1]_vars
    /\ \A m \in 1..MaxMtime :
          (running = 1 /\ fs_mtime = m /\ current_mtime < m)
              ~> ((running = 1 /\ wpc = "wait" /\ current_mtime >= m)
                    \/ wpc = "stopped")

\* the data changed after the poll that started the run now in flight
C6_Witness ==
    /\ running = 1
    /\ wpc = "wait"
    /\ ppc = "summary"
    /\ fs_mtime > current_mtime

\* C7: after a run that failed, metrics.json, summary.json and states.json
\* are a committed set: none is truncated, and all three come from the same
\* run.
C7_OutputsUntouched ==
    (ppc \in {"exited", "none"} /\ returncode # 0) =>
        /\ metrics_json # Truncated
        /\ summary_json # Truncated
        /\ states_json # Truncated
        /\ metrics_json = summary_json
        /\ summary_json = states_json

-----------------------------------------------------------------------------
(* Claims about compute_mbu_load, checked under SpecMbu *)

\* the position of region r in the biometric_data argument
InputIndex(r) ==
    CHOOSE i \in 1..Len(mbu_args.biometric_data) :
        mbu_args.biometric_data[i].region_key = r

\* C8: the priority_rank values of a returned list are a permutation of
\* 1..N, N the number of regions of biometric_data; a region with a larger
\* total_mbu_load never has a larger rank than one with a smaller load; and
\* regions of equal total_mbu_load are ranked in the order biometric_data
\* holds them.
C8_RankPermutation ==
    \A c \in 1..Len(mbu_results) :
        LET rows == mbu_results[c]
            N == Len(mbu_args.biometric_data)
        IN  /\ Len(rows) = N
            /\ {rows[i].region_key : i \in 1..N} = KeySet(mbu_args.biometric_data)
            /\ {rows[i].priority_rank : i \in 1..N} = 1..N
            /\ \A i, j \in 1..N :
                  /\ rows[i].total_mbu_load > rows[j].total_mbu_load
                        => rows[i].priority_rank <= rows[j].priority_rank
                  /\ (rows[i].total_mbu_load = rows[j].total_mbu_load
                        /\ InputIndex(rows[i].region_key)
                             < InputIndex(rows[j].region_key))
                        => rows[i].priority_rank < rows[j].priority_rank

\* three regions were ranked, the one with the largest load not first in the
\* input, the other two tied
C8_Witness ==
    /\ Len(mbu_results) = 1
    /\ Len(mbu_results[1]) = 3
    /\ mbu_results[1][1].total_mbu_load > mbu_results[1][2].total_mbu_load
    /\ mbu_results[1][2].total_mbu_load = mbu_results[1][3].total_mbu_load
    /\ mbu_results[1][2].total_mbu_load > 0
    /\ InputIndex(mbu_results[1][1].region_key) = 2

-----------------------------------------------------------------------------
(* Claims about generate_insights, checked under SpecIns *)

\* C9: a returned list is no longer than top_n; its High insights precede
\* its Medium ones, which precede its Low ones; insights of equal impact are
\* in non-increasing order of confidence; and the region of every insight
\* is a region of the requested state.
C9_InsightsOrdered ==
    \A c \in 1..Len(insight_results) :
        LET out == insight_results[c]
        IN  /\ Len(out) <= insight_args.top_n
            /\ \A i, j \in 1..Len(out) :
                  i < j =>
                    /\ impact_order(out[i].impact) <= impact_order(out[j].impact)
                    /\ out[i].impact = out[j].impact
                          => out[i].confidence >= out[j].confidence
            /\ \A i \in 1..Len(out) :
                  /\ out[i].region[2] = insight_args.state
                  /\ \E r \in Regions :
                        /\ StateOf(r) = insight_args.state
                        /\ out[i].region = format_region(r)

\* a list cut to top_n that holds both impacts, the region of another state
\* having insights of its own
C9_Witness ==
    /\ Len(insight_results) = 1
    /\ insight_args.top_n = 2
    /\ insight_args.state = "S1"
    /\ Len(insight_args.msi_results) = 3
    /\ Len(insight_results[1]) = 2
    /\ insight_results[1][1].impact = "High"
    /\ insight_results[1][2].impact = "Medium"

-----------------------------------------------------------------------------
(* Claims about the backlog baseline, checked under SpecBio *)

RECURSIVE BioLoadSum(_, _)
\* the sum of region r's total biometric loads over the first k periods
BioLoadSum(r, k) ==
    IF k = 0 THEN 0
    ELSE LET bio == biometric_data[all_periods[k]]
         IN  BioLoadSum(r, k - 1)
               + (IF HasKey(bio, r)
                  THEN Item(bio, r).bio_age_5_17 + Item(bio, r).bio_age_17_
                  ELSE 0)

RECURSIVE BioAppearances(_, _)
\* the number of the first k periods whose biometric data holds region r
BioAppearances(r, k) ==
    IF k = 0 THEN 0
    ELSE BioAppearances(r, k - 1)
           + (IF HasKey(biometric_data[all_periods[k]], r) THEN 1 ELSE 0)

\* C10: the backlog_signal reported for a region in the k-th period is
\* total_load / avg - 1 (0.0 when avg is not positive), rounded to 3 places,
\* avg being the mean of the region's total biometric load over all of the
\* first k periods that hold it; at a region's first appearance it is 0.
C10_BacklogBaseline ==
    \A k \in 1..Len(results.mbu_load) :
        \A i \in 1..Len(results.mbu_load[k].rows) :
            LET row == results.mbu_load[k].rows[i]
                n == BioAppearances(row.region_key, k)
                avg == RDiv(BioLoadSum(row.region_key, k) * Scale, n)
            IN  /\ n >= 1
                /\ row.backlog_signal
                     = Round3(IF avg > 0
                              THEN RDiv(row.total_mbu_load * Scale * ZScale, avg)
                                     - ZScale
                              ELSE 0)
                /\ n = 1 => row.backlog_signal = 0

\* a region's fourth appearance, with loads 1, 1, 1, 3: the mean is 1.5 and
\* the signal 1.0
C10_Witness ==
    /\ pc = "done"
    /\ Len(results.mbu_load) >= 4
    /\ \E i \in 1..Len(results.mbu_load[4].rows) :
          LET row == results.mbu_load[4].rows[i]
          IN  /\ BioAppearances(row.region_key, 4) = 4
              /\ row.total_mbu_load = 3
              /\ row.backlog_signal = ZScale

-----------------------------------------------------------------------------
(* Claims about the two growth formulas, checked under Spec *)

\* the rows of the period just processed, in a step of the loop
C11_Step ==
    idx' = idx + 1 =>
        LET rows == results'.demand_proxies[idx'].rows
        IN  \A i \in 1..Len(aggregated_data') :
                LET item == aggregated_data'[i]
                    row == rows[i]
                    curr == item.age_18_greater
                    prev == Field(previous_enrolment, item.region_key,
                                  "age_18_greater")
                IN  /\ row.region_key = item.region_key
                    /\ prev = 0 =>
                          /\ item.adult_enrolment_growth = 0
                          /\ row.adult_growth_rate
                               = (IF curr = 0 THEN 0 ELSE DScale)
                    /\ prev > 0 =>
                          /\ item.adult_enrolment_growth
                               = SDiv((curr - prev) * Scale, prev)
                          /\ row.adult_growth_rate
                               = Round4(SDiv((curr - prev) * DScale, prev))

\* C11: at a zero previous age_18_greater (the region absent from the
\* previous snapshot included) the demand-proxy adult growth is 0.0 for a
\* zero current value and 1.0 for a positive one, while the merged
\* adult_enrolment_growth is 0 whatever the current value; at a positive
\* previous value both are (curr - prev) / prev.
C11_GrowthFormulas == [][C11_Step]_vars

\* one region grew from a zero previous value (demand growth 1.0) and then
\* halved (growth -0.5 in both formulas)
C11_Witness ==
    /\ Len(results.demand_proxies) >= 2
    /\ \E i \in 1..Len(results.demand_proxies[1].rows) :
          /\ results.demand_proxies[1].rows[i].region_key = RegionC
          /\ results.demand_proxies[1].rows[i].adult_growth_rate = DScale
    /\ \E i \in 1..Len(results.demand_proxies[2].rows) :
          /\ results.demand_proxies[2].rows[i].region_key = RegionC
          /\ results.demand_proxies[2].rows[i].adult_growth_rate = -(DScale \div 2)
    /\ \E i \in 1..Len(aggregated_data) :
          /\ aggregated_data[i].region_key = RegionC
          /\ aggregated_data[i].adult_enrolment_growth = -(Scale \div 2)
    /\ idx = 2

-----------------------------------------------------------------------------
(* Claims about degenerate samples, checked under SpecMsi *)

\* the snapshot has one region, or all of its regions have the same f
Degenerate(f) ==
    \/ Len(aggregated_data) = 1
    \/ /\ Len(aggregated_data) >= 2
       /\ \A i, j \in 1..Len(aggregated_data) :
             aggregated_data[i][f] = aggregated_data[j][f]

\* C12: when the snapshot of a compute_msi call has exactly one region, or
\* all its regions have the same value of a derived ratio, every z-score of
\* that ratio is 0; when this is so for all three ratios, every region gets
\* msi_score 0, classification Stable and the counter 0.
C12_DegenerateZscores ==
    /\ Degenerate("address_update_rate") =>
          /\ \A i \in 1..Len(aggregated_data) : addr_z(aggregated_data, i) = 0
          /\ \A k \in 1..Len(msi_results) :
                msi_results[k].address_update_zscore = 0
    /\ Degenerate("adult_enrolment_growth") =>
          /\ \A i \in 1..Len(aggregated_data) : adult_z(aggregated_data, i) = 0
          /\ \A k \in 1..Len(msi_results) :
                msi_results[k].adult_enrolment_zscore = 0
    /\ Degenerate("enrolment_decline") =>
          /\ \A i \in 1..Len(aggregated_data) : decline_z(aggregated_data, i) = 0
          /\ \A k \in 1..Len(msi_results) :
                msi_results[k].enrolment_decline_zscore = 0
    /\ (Degenerate("address_update_rate") /\ Degenerate("adult_enrolment_growth")
          /\ Degenerate("enrolment_decline")) =>
          \A k \in 1..Len(msi_results) :
              LET h == history[msi_results[k].region_key]
              IN  /\ msi_results[k].msi_score = 0
                  /\ msi_results[k].classification = "Stable"
                  /\ msi_results[k].consecutive_watch_periods = 0
                  /\ h[Len(h)] = 0

\* two regions with the same non-zero ratios, one of them with a counter of
\* 2 before the call
C12_Witness ==
    /\ Len(aggregated_data) = 2
    /\ \A i \in 1..2 :
          /\ aggregated_data[i].address_update_rate = Scale
          /\ aggregated_data[i].adult_enrolment_growth = Scale
          /\ aggregated_data[i].enrolment_decline = Scale
    /\ \E r \in MsiRegions : history[r] = <<1, 2, 0>>
    /\ Len(msi_results) = 2

-----------------------------------------------------------------------------
(* Claims about guarded divisions, checked under SpecDiv *)

\* what a step of the loop yields where a divisor would be zero, RateAtZero
\* and GrowthAtZero being the values expected of the max-guarded ratios and
\* of compute_growth_rate
ZeroDivisorResults(RateAtZero(_), GrowthAtZero(_)) ==
    idx' = idx + 1 =>
        LET merged == aggregated_data'
            n == Len(merged)
        IN  /\ \A i \in 1..n :
                  LET item == merged[i]
                      r == item.region_key
                      d == results'.demand_proxies[idx'].rows[i]
                      total_enrol == item.age_0_5 + item.age_5_17
                                       + item.age_18_greater
                      prev_total == IF HasKey(previous_enrolment, r)
                                    THEN SumOfValues(Item(previous_enrolment, r))
                                    ELSE 0
                      prev_adult == Field(previous_enrolment, r, "age_18_greater")
                      prev_child == Field(previous_enrolment, r, "age_0_5")
                                      + Field(previous_enrolment, r, "age_5_17")
                  IN  /\ total_enrol = 0 =>
                            item.address_update_rate
                              = RateAtZero(item.demo_age_17_) * Scale
                      /\ prev_adult = 0 => item.adult_enrolment_growth = 0
                      /\ prev_total = 0 => item.enrolment_decline = 0
                      /\ prev_child = 0 =>
                            d.child_growth_rate
                              = GrowthAtZero(item.age_0_5 + item.age_5_17) * DScale
                      /\ prev_adult = 0 =>
                            d.adult_growth_rate
                              = GrowthAtZero(item.age_18_greater) * DScale
                      /\ item.demo_age_5_17 + item.demo_age_17_ = 0 =>
                            d.address_intensity
                              = RateAtZero(item.demo_age_17_) * DScale
            /\ \A k \in 1..Len(results'.msi[idx'].rows) :
                  LET row == results'.msi[idx'].rows[k]
                  IN  /\ (n < 2 \/ stdev(address_rates(merged)) = 0)
                            => row.address_update_zscore = 0
                      /\ (n < 2 \/ stdev(adult_growths(merged)) = 0)
                            => row.adult_enrolment_zscore = 0
                      /\ (n < 2 \/ stdev(declines(merged)) = 0)
                            => row.enrolment_decline_zscore = 0
            /\ \A k \in 1..Len(results'.mbu_load[idx'].rows) :
                  LET row == results'.mbu_load[idx'].rows[k]
                  IN  SeqSum(historical_bio'[row.region_key]) = 0
                          => row.backlog_signal = 0

\* the default 0.0
ZeroDefault(numerator) == 0

\* the numerator over the 1 that max(..., 1) puts in place of a zero divisor
OverOne(numerator) == numerator

\* compute_growth_rate at a zero previous value
OneIfGrown(current) == IF current = 0 THEN 0 ELSE 1

\* C13 as stated: wherever a divisor of the merge, of compute_zscore, of
\* compute_growth_rate, of compute_demand_proxies or of compute_mbu_load
\* would be zero, the result is 0.0.
C13_ZeroDivisorGivesZero ==
    [][ZeroDivisorResults(ZeroDefault, ZeroDefault)]_vars

\* C13, amended: where the divisor of a division would be zero, the z-scores, adult_enrolment_growth, enrolment_decline and
\* backlog_signal are 0.0, compute_growth_rate is 0.0 for a zero current
\* value and 1.0 otherwise, and address_update_rate and address_intensity
\* are their numerator divided by 1.
C13_ZeroDivisorDefaults ==
    [][ZeroDivisorResults(OverOne, OneIfGrown)]_vars

\* one period in which a region without enrolment has an address update, a
\* region grows from nothing, and a region's biometric loads are all zero
C13_Witness ==
    /\ idx = 1
    /\ \E i \in 1..Len(aggregated_data) :
          /\ aggregated_data[i].region_key = RegionA
          /\ aggregated_data[i].age_18_greater = 0
          /\ aggregated_data[i].address_update_rate = Scale
    /\ \E i \in 1..Len(results.demand_proxies[1].rows) :
          results.demand_proxies[1].rows[i].adult_growth_rate = DScale
    /\ \E k \in 1..Len(results.mbu_load[1].rows) :
          /\ results.mbu_load[1].rows[k].total_mbu_load = 0
          /\ results.mbu_load[1].rows[k].backlog_signal = 0

-----------------------------------------------------------------------------
(* Claims about the sample run, checked under SpecSample *)

\* the first call has the snapshot of the sample run: RegionA with ratios
\* (0.15, 0.08, 0.02), RegionB with (0.25, 0.12, -0.05), in either order
SampleRun ==
    /\ calls = 1
    /\ Len(aggregated_data) = 2
    /\ HasKey(aggregated_data, RegionA)
    /\ HasKey(aggregated_data, RegionB)
    /\ Item(aggregated_data, RegionA).address_update_rate = (15 * Scale) \div 100
    /\ Item(aggregated_data, RegionA).adult_enrolment_growth = (8 * Scale) \div 100
    /\ Item(aggregated_data, RegionA).enrolment_decline = (2 * Scale) \div 100
    /\ Item(aggregated_data, RegionB).address_update_rate = (25 * Scale) \div 100
    /\ Item(aggregated_data, RegionB).adult_enrolment_growth = (12 * Scale) \div 100
    /\ Item(aggregated_data, RegionB).enrolment_decline = -((5 * Scale) \div 100)

\* the z-scores of each metric are opposite and not zero, B scores above A
\* and comes first
SampleScores ==
    LET a == Item(msi_results, RegionA)
        b == Item(msi_results, RegionB)
    IN  /\ Len(msi_results) = 2
        /\ a.address_update_zscore = -b.address_update_zscore
        /\ a.adult_enrolment_zscore = -b.adult_enrolment_zscore
        /\ a.enrolment_decline_zscore = -b.enrolment_decline_zscore
        /\ a.address_update_zscore # 0
        /\ a.adult_enrolment_zscore # 0
        /\ a.enrolment_decline_zscore # 0
        /\ b.msi_score > a.msi_score
        /\ msi_results[1].region_key = RegionB
        /\ msi_results[2].region_key = RegionA

\* C14 as stated: in the sample run the z-scores of each metric are equal in
\* magnitude and opposite in sign, msi_score(B) > msi_score(A), B is listed
\* before A, and both regions classify Stable.
C14_SampleBothStable ==
    SampleRun =>
        /\ SampleScores
        /\ Item(msi_results, RegionA).classification = "Stable"
        /\ Item(msi_results, RegionB).classification = "Stable"

\* C14, amended: as above, but B, whose msi_score is 3 / sqrt(2) = 2.121 with
\* a counter of 1, classifies Watch; A, at -2.121, classifies Stable.
C14_SampleRun ==
    SampleRun =>
        /\ SampleScores
        /\ Item(msi_results, RegionA).classification = "Stable"
        /\ Item(msi_results, RegionB).classification = "Watch"
        /\ Item(msi_results, RegionB).msi_score >= 2 * ZScale
        /\ Item(msi_results, RegionB).consecutive_watch_periods = 1
        /\ Item(msi_results, RegionA).msi_score
             = -Item(msi_results, RegionB).msi_score

\* the sample run, with A first in the snapshot
C14_Witness ==
    /\ SampleRun
    /\ aggregated_data[1].region_key = RegionA
    /\ Len(msi_results) = 2

-----------------------------------------------------------------------------
(* SpecFeed: one snapshot fed to compute_msi of a fresh MetricsCalculator  *)
(* and, with a previous snapshot, to compute_demand_proxies                *)

FeedKinds == {"zero", "child", "busy"}

\* a snapshot item: every field zero, or children only, or all ages
FeedItem(r, kind) ==
    IF kind = "zero" THEN SnapshotItem(r, 0, 0, 0)
    ELSE IF kind = "child"
         THEN [SnapshotItem(r, 0, 0, 0) EXCEPT !.age_5_17 = 1]
         ELSE [SnapshotItem(r, Scale, 0, 0) EXCEPT !.age_0_5 = 2,
                                                   !.age_18_greater = 3,
                                                   !.demo_age_17_ = 1]

FeedSnapshots ==
    UNION {{[i \in 1..Len(o) |-> FeedItem(o[i], kinds[i])]
            : kinds \in [1..Len(o) -> FeedKinds]}
           : o \in Orderings(MsiRegions)}

InitFeed ==
    /\ \E current_data \in FeedSnapshots, previous_data \in FeedSnapshots :
        demand_args = [current_data |-> current_data,
                       previous_data |-> previous_data,
                       period |-> 1]
    /\ demand_results = <<>>
    /\ MsiIdle
    /\ PipeIdle
    /\ MbuIdle
    /\ InsIdle
    /\ AggIdle
    /\ WatchIdle

\* compute_msi(current_data, period) on the fresh calculator
FeedMsi ==
    /\ calls = 0
    /\ aggregated_data' = demand_args.current_data
    /\ msi_results' = compute_msi(history, demand_args.current_data,
                                  demand_args.period)
    /\ history' = HistoryAfter(history, msi_results')
    /\ calls' = 1
    /\ UNCHANGED <<pipeVars, mbuVars, insVars, demVars, aggVars, watchVars>>

\* compute_demand_proxies(current_data, previous_data, period)
FeedDemand ==
    /\ demand_results = <<>>
    /\ demand_results' = <<compute_demand_proxies(demand_args.current_data,
                                                   demand_args.previous_data,
                                                   demand_args.period)>>
    /\ UNCHANGED <<demand_args, msiVars, pipeVars, mbuVars, insVars, aggVars,
                   watchVars>>

NextFeed == FeedMsi \/ FeedDemand

SpecFeed == InitFeed /\ [][NextFeed]_vars

-----------------------------------------------------------------------------
(* Claims about an all-zero snapshot, checked under SpecFeed *)

\* every field of every region of data is zero
AllZero(data) ==
    \A i \in 1..Len(data) :
        /\ data[i].address_update_rate = 0
        /\ data[i].adult_enrolment_growth = 0
        /\ data[i].enrolment_decline = 0
        /\ data[i].age_0_5 = 0
        /\ data[i].age_5_17 = 0
        /\ data[i].age_18_greater = 0
        /\ data[i].demo_age_5_17 = 0
        /\ data[i].demo_age_17_ = 0

\* compute_msi on the fed snapshot gives every region score 0 and Stable
ZeroMsi ==
    calls = 1 =>
        /\ Len(msi_results) = Len(demand_args.current_data)
        /\ \A i \in 1..Len(msi_results) :
            /\ msi_results[i].msi_score = 0
            /\ msi_results[i].classification = "Stable"

\* the child and adult enrolment of region k in the previous snapshot
PrevChild(k) ==
    Field(demand_args.previous_data, k, "age_0_5")
        + Field(demand_args.previous_data, k, "age_5_17")

PrevAdult(k) == Field(demand_args.previous_data, k, "age_18_greater")

\* C15 as stated: an all-zero snapshot gives msi_score 0 and Stable for every
\* region, and every demand proxy field 0.0, whatever the previous snapshot
\* contains
C15_AllZeroGivesAllZero ==
    (demand_args # <<>> /\ AllZero(demand_args.current_data)) =>
        /\ ZeroMsi
        /\ demand_results # <<>> =>
            \A i \in 1..Len(demand_results[1]) :
                /\ demand_results[1][i].school_demand = 0
                /\ demand_results[1][i].housing_transport_demand = 0
                /\ demand_results[1][i].child_growth_rate = 0
                /\ demand_results[1][i].adult_growth_rate = 0
                /\ demand_results[1][i].address_intensity = 0

\* C15 amended: an all-zero snapshot gives msi_score 0 and Stable for every
\* region and address_intensity 0.0; child_growth_rate and adult_growth_rate
\* are 0.0 for a region whose previous child or adult enrolment is zero or
\* absent and -1.0 otherwise, school_demand equals child_growth_rate and
\* housing_transport_demand equals adult_growth_rate
C15_AllZeroSnapshot ==
    (demand_args # <<>> /\ AllZero(demand_args.current_data)) =>
        /\ ZeroMsi
        /\ demand_results # <<>> =>
            /\ Len(demand_results[1]) = Len(demand_args.current_data)
            /\ \A i \in 1..Len(demand_results[1]) :
                LET row == demand_results[1][i]
                    k == demand_args.current_data[i].region_key
                IN  /\ row.region_key = k
                    /\ row.child_growth_rate
                         = (IF PrevChild(k) > 0 THEN -DScale ELSE 0)
                    /\ row.adult_growth_rate
                         = (IF PrevAdult(k) > 0 THEN -DScale ELSE 0)
                    /\ row.school_demand = row.child_growth_rate
                    /\ row.housing_transport_demand = row.adult_growth_rate
                    /\ row.address_intensity = 0

\* both functions have run on an all-zero snapshot of two regions, one with
\* previous adult enrolment and one absent from the previous snapshot
C15_Witness ==
    /\ demand_args # <<>>
    /\ AllZero(demand_args.current_data)
    /\ Len(demand_args.current_data) = 2
    /\ calls = 1
    /\ demand_results # <<>>
    /\ \E i, j \in 1..2 :
        /\ PrevAdult(demand_args.current_data[i].region_key) > 0
        /\ demand_results[1][i].adult_growth_rate = -DScale
        /\ ~HasKey(demand_args.previous_data,
                   demand_args.current_data[j].region_key)
        /\ demand_results[1][j].school_demand = 0

-----------------------------------------------------------------------------
(* data_processor.py: DataProcessor.aggregate_by_period_and_region.  A row *)
(* is the dict _clean_row returns; a date is <<year, month>> and None is   *)
(* <<>>.  The period "2025-02" is <<2025, 2>> and "2025-Q1" is             *)
(* <<2025, "Q", 1>>.  The returned dict is the sequence of its periods in  *)
(* insertion order, each with the sequence of its region items.           *)

\* data_loader.py: DATASET_CONFIGS[dataset_type].columns
DATASET_CONFIGS ==
    [enrolment |-> <<"date", "state", "district", "pincode",
                     "age_0_5", "age_5_17", "age_18_greater">>,
     demographic |-> <<"date", "state", "district", "pincode",
                       "demo_age_5_17", "demo_age_17_">>,
     biometric |-> <<"date", "state", "district", "pincode",
                     "bio_age_5_17", "bio_age_17_">>]

\* d.get(key, default)
get(d, key, default) == IF key \in DOMAIN d THEN d[key] ELSE default

None == <<>>

\* date.strftime("%Y-%m"), or f"{date.year}-Q{quarter}" (lines 44-48)
period_of(date, period_type) ==
    IF period_type = "monthly" THEN <<date[1], date[2]>>
    ELSE LET quarter == ((date[2] - 1) \div 3) + 1
         IN  <<date[1], "Q", quarter>>

\* f"{state}|{district}|{pincode}" (lines 51-54)
region_key_of(row) ==
    <<get(row, "state", "Unknown"), get(row, "district", "Unknown"),
      get(row, "pincode", "000000")>>

AccumulateOverwrite(item, col, row) == get(row, col, 0)

\* aggregated[period][region_key][col] += row.get(col, 0) (line 60)
accumulate(item, col, row) == get(item, col, 0) + get(row, col, 0)

SetCol(item, col, v) ==
    IF col \in DOMAIN item THEN [item EXCEPT ![col] = v]
    ELSE item @@ (col :> v)

\* for col in config.columns (lines 58-60)
RECURSIVE AddColumns(_, _, _)
AddColumns(item, row, columns) ==
    IF columns = <<>> THEN item
    ELSE LET col == Head(columns)
         IN  AddColumns(IF col \notin {"date", "state", "district", "pincode"}
                        THEN SetCol(item, col, accumulate(item, col, row))
                        ELSE item,
                        row, Tail(columns))

\* the position of the entry of period in aggregated, 0 when it has none
PeriodIndex(aggregated, period) ==
    IF \E i \in 1..Len(aggregated) : aggregated[i].period = period
    THEN CHOOSE i \in 1..Len(aggregated) : aggregated[i].period = period
    ELSE 0

\* the position of region_key in regions, 0 when it is not a key
RegionIndex(regions, region_key) ==
    IF HasKey(regions, region_key)
    THEN CHOOSE i \in 1..Len(regions) : regions[i].region_key = region_key
    ELSE 0

\* the body of the row loop (lines 39-60)
AddRow(aggregated, row, dataset_type, period_type) ==
    LET date == get(row, "date", None)
    IN  IF date = None THEN aggregated
        ELSE LET period == period_of(date, period_type)
                 region_key == region_key_of(row)
                 pi == PeriodIndex(aggregated, period)
                 regions == IF pi = 0 THEN <<>> ELSE aggregated[pi].regions
                 ri == RegionIndex(regions, region_key)
                 old == IF ri = 0 THEN [region_key |-> region_key]
                        ELSE regions[ri]
                 new == AddColumns(old, row, DATASET_CONFIGS[dataset_type])
                 regions2 == IF ri = 0 THEN Append(regions, new)
                             ELSE [regions EXCEPT ![ri] = new]
             IN  IF pi = 0
                 THEN Append(aggregated,
                             [period |-> period, regions |-> regions2])
                 ELSE [aggregated EXCEPT ![pi].regions = regions2]

\* for row in batch (line 38)
RECURSIVE AddBatch(_, _, _, _)
AddBatch(aggregated, batch, dataset_type, period_type) ==
    IF batch = <<>> THEN aggregated
    ELSE AddBatch(AddRow(aggregated, Head(batch), dataset_type, period_type),
                  Tail(batch), dataset_type, period_type)

\* for batch in self.loader.load_dataset(dataset_type) (line 37)
RECURSIVE AddBatches(_, _, _, _)
AddBatches(aggregated, batches, dataset_type, period_type) ==
    IF batches = <<>> THEN aggregated
    ELSE AddBatches(AddBatch(aggregated, Head(batches), dataset_type,
                             period_type),
                    Tail(batches), dataset_type, period_type)

aggregate_by_period_and_region(batches, dataset_type, period_type) ==
    AddBatches(<<>>, batches, dataset_type, period_type)

-----------------------------------------------------------------------------
(* SpecAgg: one aggregate_by_period_and_region call over the batches the   *)
(* loader yields                                                           *)

MaxRows == 3

\* cleaned enrolment rows: two of one quarter, one missing a count, one of
\* the next quarter, one without a date, one without a state, one that
\* shares month and region with the first
EnrolmentRows ==
    {[date |-> <<2025, 2>>, state |-> "S1", district |-> "D1",
      pincode |-> "P1", age_0_5 |-> 1, age_5_17 |-> 0, age_18_greater |-> 2],
     [date |-> <<2025, 3>>, state |-> "S1", district |-> "D1",
      pincode |-> "P1", age_0_5 |-> 2, age_18_greater |-> 1],
     [date |-> <<2025, 4>>, state |-> "S1", district |-> "D1",
      pincode |-> "P1", age_0_5 |-> 0, age_5_17 |-> 1, age_18_greater |-> 0],
     [date |-> None, state |-> "S1", district |-> "D1",
      pincode |-> "P1", age_0_5 |-> 1, age_5_17 |-> 1, age_18_greater |-> 1],
     [date |-> <<2025, 2>>, district |-> "D1",
      pincode |-> "P1", age_0_5 |-> 1, age_5_17 |-> 0, age_18_greater |-> 0],
     [date |-> <<2025, 2>>, state |-> "S1", district |-> "D1",
      pincode |-> "P1", age_0_5 |-> 0, age_5_17 |-> 2, age_18_greater |-> 0]}

\* the sequences of at most MaxRows distinct rows
RowSequences ==
    UNION {{s \in [1..n -> EnrolmentRows] :
                \A i, j \in 1..n : i # j => s[i] # s[j]}
           : n \in 0..MaxRows}

\* the ways load_dataset can cut rows into non-empty batches
RECURSIVE Batchings(_)
Batchings(rows) ==
    IF rows = <<>> THEN {<<>>}
    ELSE UNION {{<<SubSeq(rows, 1, k)>> \o rest
                 : rest \in Batchings(SubSeq(rows, k + 1, Len(rows)))}
                : k \in 1..Len(rows)}

BatchInputs == UNION {Batchings(rows) : rows \in RowSequences}

InitAgg ==
    /\ \E batches \in BatchInputs, period_type \in {"monthly", "quarterly"} :
        agg_args = [batches |-> batches, dataset_type |-> "enrolment",
                    period_type |-> period_type]
    /\ agg_results = <<>>
    /\ MsiIdle
    /\ PipeIdle
    /\ MbuIdle
    /\ InsIdle
    /\ DemIdle
    /\ WatchIdle

AggregateByPeriodAndRegion ==
    /\ agg_results = <<>>
    /\ agg_results' = <<aggregate_by_period_and_region(agg_args.batches,
                                                        agg_args.dataset_type,
                                                        agg_args.period_type)>>
    /\ UNCHANGED <<agg_args, msiVars, pipeVars, mbuVars, insVars, demVars,
                   watchVars>>

NextAgg == AggregateByPeriodAndRegion

SpecAgg == InitAgg /\ [][NextAgg]_vars

-----------------------------------------------------------------------------
(* Claims about aggregate_by_period_and_region, checked under SpecAgg *)

\* the rows of the batches, in the order the loader yields them
RECURSIVE Flatten(_)
Flatten(batches) ==
    IF batches = <<>> THEN <<>> ELSE Head(batches) \o Flatten(Tail(batches))

RECURSIVE SumAt(_, _, _)
\* the sum of column col, a missing one counting 0, over the rows at I
SumAt(rows, I, col) ==
    IF I = {} THEN 0
    ELSE LET i == CHOOSE i \in I : TRUE
         IN  get(rows[i], col, 0) + SumAt(rows, I \ {i}, col)

\* the positions of the rows with a date in period and region key region_key
RowsOf(rows, period_type, period, region_key) ==
    {i \in 1..Len(rows) :
        /\ rows[i].date # None
        /\ period_of(rows[i].date, period_type) = period
        /\ region_key_of(rows[i]) = region_key}

NumericColumns == {"age_0_5", "age_5_17", "age_18_greater"}

\* the returned dict as a set of (period, region item) pairs
AsMapping(aggregated) ==
    UNION {{<<aggregated[i].period, aggregated[i].regions[j]>>
            : j \in 1..Len(aggregated[i].regions)}
           : i \in 1..Len(aggregated)}

\* the rows in every order
Reorderings(rows) ==
    {[i \in 1..Len(rows) |-> rows[p[i]]] :
        p \in {q \in [1..Len(rows) -> 1..Len(rows)] :
                  \A i, j \in 1..Len(rows) : i # j => q[i] # q[j]}}

\* C16: the returned dict has a period for exactly the periods of the dated
\* rows and under it a region for exactly the region keys of that period's
\* rows, each numeric field being the sum of the field over those rows with
\* a missing field counting 0; rows without a date contribute nothing; the
\* same rows give the same dict in any other batching and in any other order
C16_AggregateSums ==
    agg_results # <<>> =>
        LET aggregated == agg_results[1]
            rows == Flatten(agg_args.batches)
            period_type == agg_args.period_type
            dated == {i \in 1..Len(rows) : rows[i].date # None}
        IN  /\ \A i, j \in 1..Len(aggregated) :
                aggregated[i].period = aggregated[j].period => i = j
            /\ {aggregated[i].period : i \in 1..Len(aggregated)}
                 = {period_of(rows[i].date, period_type) : i \in dated}
            /\ \A i \in 1..Len(aggregated) :
                LET period == aggregated[i].period
                    regions == aggregated[i].regions
                IN  /\ \A j, k \in 1..Len(regions) :
                        regions[j].region_key = regions[k].region_key => j = k
                    /\ KeySet(regions)
                         = {region_key_of(rows[n]) :
                              n \in {m \in dated :
                                       period_of(rows[m].date, period_type)
                                         = period}}
                    /\ \A j \in 1..Len(regions) :
                        /\ DOMAIN regions[j]
                             = {"region_key"} \cup NumericColumns
                        /\ \A col \in NumericColumns :
                            regions[j][col]
                              = SumAt(rows,
                                      RowsOf(rows, period_type, period,
                                             regions[j].region_key),
                                      col)
            /\ \A batches \in Batchings(rows) :
                AsMapping(aggregate_by_period_and_region(
                              batches, agg_args.dataset_type, period_type))
                  = AsMapping(aggregated)
            /\ \A other \in Reorderings(rows) :
                AsMapping(aggregate_by_period_and_region(
                              <<other>>, agg_args.dataset_type, period_type))
                  = AsMapping(aggregated)

\* the call has returned for two batches that hold a row without a date and
\* two rows of one period and region, one of them without age_5_17
C16_Witness ==
    /\ agg_results # <<>>
    /\ Len(agg_args.batches) = 2
    /\ LET rows == Flatten(agg_args.batches)
       IN  /\ \E i \in 1..Len(rows) : rows[i].date = None
           /\ \E i, j \in 1..Len(rows) :
               /\ i # j
               /\ rows[i].date # None
               /\ rows[j].date # None
               /\ "age_5_17" \notin DOMAIN rows[j]
               /\ period_of(rows[i].date, agg_args.period_type)
                    = period_of(rows[j].date, agg_args.period_type)
               /\ region_key_of(rows[i]) = region_key_of(rows[j])
    /\ Len(agg_results[1]) = 1
    /\ agg_results[1][1].regions[1].age_0_5 = 3

-----------------------------------------------------------------------------
(* Claims about the list compute_msi returns, checked under SpecMsi *)

\* the position of region key k in the snapshot of the last call
EncounterIndex(k) ==
    CHOOSE i \in 1..Len(aggregated_data) : aggregated_data[i].region_key = k

\* C17: the list compute_msi returns holds exactly one MSIResult per region
\* of the input snapshot, msi_score never increases along it, and results
\* with equal msi_score are in the order the snapshot holds their regions
C17_OnePerRegionSorted ==
    calls > 0 =>
        /\ Len(msi_results) = Len(aggregated_data)
        /\ KeySet(msi_results) = KeySet(aggregated_data)
        /\ \A i, j \in 1..Len(msi_results) :
            i < j =>
                /\ msi_results[i].region_key # msi_results[j].region_key
                /\ msi_results[i].msi_score >= msi_results[j].msi_score
                /\ msi_results[i].msi_score = msi_results[j].msi_score =>
                     EncounterIndex(msi_results[i].region_key)
                       < EncounterIndex(msi_results[j].region_key)

\* a call has returned two results of equal score in snapshot order, the
\* snapshot holding RegionB first
C17_Witness ==
    /\ calls > 1
    /\ Len(msi_results) = 2
    /\ msi_results[1].msi_score = msi_results[2].msi_score
    /\ aggregated_data[1].region_key = RegionB
    /\ msi_results[1].region_key = RegionB

-----------------------------------------------------------------------------
(* SpecConf: one generate_insights call on one region's results, over the  *)
(* scores, counters, demands and backlog signals MetricsCalculator yields: *)
(* a Critical result has msi_score >= 2.0 and a counter >= 3               *)

MaxConsecutive == 6

InsightSweep ==
    {[msi_results |-> <<MsiRow(RegionA, "Critical", score, consec)>>,
      demand_proxies |-> <<DemandRow(RegionA, school, housing)>>,
      mbu_loads |-> <<MbuRow(RegionA, backlog)>>,
      state |-> "S1",
      top_n |-> DefaultTopN] :
        score \in {(k * ZScale) \div 2 : k \in 4..12},
        consec \in CONSECUTIVE_PERIODS_FOR_CRITICAL..MaxConsecutive,
        school \in {-DScale, 0, DScale \div 10, (11 * DScale) \div 100,
                    (2 * DScale) \div 10, (4 * DScale) \div 10, DScale,
                    3 * DScale},
        housing \in {-DScale, (15 * DScale) \div 100, (16 * DScale) \div 100,
                     (45 * DScale) \div 100, DScale, 3 * DScale},
        backlog \in {-ZScale, 0, (3 * ZScale) \div 10, (31 * ZScale) \div 100,
                     (4 * ZScale) \div 10, ZScale, 5 * ZScale}}

InitConf ==
    /\ insight_args \in InsightSweep
    /\ insight_results = <<>>
    /\ MsiIdle
    /\ PipeIdle
    /\ MbuIdle
    /\ DemIdle
    /\ AggIdle
    /\ WatchIdle

SpecConf == InitConf /\ [][NextIns]_vars

-----------------------------------------------------------------------------
(* Claims about the insights' fields, checked under SpecConf *)

\* C18: every insight generate_insights returns has impact High, Medium or
\* Low and a confidence between 0 and 1
C18_ImpactAndConfidence ==
    \A k \in 1..Len(insight_results) :
        \A i \in 1..Len(insight_results[k]) :
            /\ insight_results[k][i].impact \in {"High", "Medium", "Low"}
            /\ insight_results[k][i].confidence >= 0
            /\ insight_results[k][i].confidence <= DScale

\* the call has returned all four kinds of insight for scores, demands and
\* a backlog signal beyond the values at which the confidences are capped
C18_Witness ==
    /\ Len(insight_results) = 1
    /\ insight_args.msi_results[1].msi_score = 6 * ZScale
    /\ insight_args.msi_results[1].consecutive_watch_periods = MaxConsecutive
    /\ insight_args.demand_proxies[1].school_demand = 3 * DScale
    /\ insight_args.demand_proxies[1].housing_transport_demand = 3 * DScale
    /\ insight_args.mbu_loads[1].backlog_signal = 5 * ZScale
    /\ Len(insight_results[1]) = 4
    /\ \E i \in 1..4 : insight_results[1][i].confidence = DScale

-----------------------------------------------------------------------------
(* SpecRerun: compute_all_metrics called again on the same DataProcessor,  *)
(* whose MetricsCalculator was made once in __init__ (line 23)             *)

MaxRuns == 2

HistoryResetOnNewCall(h) == [r \in DOMAIN h |-> <<>>]

\* self.metrics.history on entry to compute_all_metrics: nothing in lines
\* 71-86 assigns it
HistoryOnNewCall(h) == h

\* a further compute_all_metrics call on the same data, up to the loop
\* (lines 71-86)
ComputeAllMetricsAgain ==
    /\ pc = "done"
    /\ calls < MaxRuns * Len(all_periods)
    /\ pc' = "loop"
    /\ idx' = 0
    /\ previous_enrolment' = <<>>
    /\ historical_bio' = [r \in Regions |-> <<>>]
    /\ results' = [msi |-> <<>>, demand_proxies |-> <<>>, mbu_load |-> <<>>,
                   insights_by_state |-> {}]
    /\ history' = HistoryOnNewCall(history)
    /\ UNCHANGED <<aggregated_data, msi_results, calls, enrolment_data,
                   demographic_data, biometric_data, all_periods>>
    /\ UNCHANGED <<mbuVars, insVars, demVars, aggVars, watchVars>>

NextRerun == ProcessPeriod \/ ReturnResults \/ ComputeAllMetricsAgain

\* enrolment only: RegionC in every period with data, RegionA in some
RerunOptions ==
    {[enrol |-> e, demo |-> <<>>, bio |-> <<>>] : e \in EnrolOptions}

InitRerun == InitOn(RerunOptions)

SpecRerun == InitRerun /\ [][NextRerun]_vars

-----------------------------------------------------------------------------
(* Claims about the history, checked under SpecRerun *)

\* a compute_msi call appends to the history of each region of its snapshot
\* the counter it computed for the region and leaves every other history as
\* it was; no other step changes a history
C19_Step ==
    \A r \in Regions :
        IF calls' = calls + 1 /\ HasKey(aggregated_data', r)
        THEN /\ HasKey(msi_results', r)
             /\ history'[r]
                  = Append(history[r],
                           Item(msi_results', r).consecutive_watch_periods)
        ELSE history'[r] = history[r]

\* C19: the history is append-only: each compute_msi call appends exactly one
\* counter value for each region of its snapshot, earlier entries and the
\* histories of absent regions stay as they are, and neither a new period
\* nor a new compute_all_metrics call on the same DataProcessor resets it
C19_HistoryAppendOnly == [][C19_Step]_vars

\* in the second compute_all_metrics call the history of RegionC holds more
\* entries than the data has periods, and RegionA, absent from some period,
\* holds fewer entries than there were compute_msi calls
C19_Witness ==
    /\ calls > Len(all_periods)
    /\ Len(history[RegionC]) > Len(all_periods)
    /\ Len(history[RegionA]) > 0
    /\ Len(history[RegionA]) < Len(history[RegionC])

-----------------------------------------------------------------------------
(* Claims about the first Critical classification, checked under SpecMsi *)

\* a Critical result is the region's third appearance at least, has
\* msi_score >= 2.0, and the region's last three counters are positive; the
\* counter of a region's i-th appearance is at most i
C20_State ==
    /\ \A k \in 1..Len(msi_results) :
        msi_results[k].classification = "Critical" =>
            LET h == history[msi_results[k].region_key]
                n == Len(h)
            IN  /\ n >= CONSECUTIVE_PERIODS_FOR_CRITICAL
                /\ msi_results[k].msi_score >= MSI_WATCH_THRESHOLD
                /\ h[n] = msi_results[k].consecutive_watch_periods
                /\ h[n] > 0
                /\ h[n - 1] > 0
                /\ h[n - 2] > 0
    /\ \A r \in Regions :
        \A i \in 1..Len(history[r]) : history[r][i] <= i

\* a call records a positive counter for a region only with msi_score >= 2.0
C20_Step ==
    \A r \in Regions :
        (/\ calls' = calls + 1
         /\ HasKey(aggregated_data', r)
         /\ history'[r][Len(history'[r])] > 0)
            => Item(msi_results', r).msi_score >= MSI_WATCH_THRESHOLD

\* C20: from a fresh MetricsCalculator a region is not Critical in its first
\* or second processed period: Critical implies msi_score >= 2.0 in that
\* period and in the region's two preceding appearances, and a counter never
\* exceeds the number of periods in which the region has been processed
C20_CriticalNeedsThree == [](C20_State) /\ [][C20_Step]_vars

\* a region is Critical at its third appearance, its score having been at
\* least 2.0 in all three, beside a region whose counter stayed 0
C20_Witness ==
    /\ \E k \in 1..Len(msi_results) :
        /\ msi_results[k].classification = "Critical"
        /\ history[msi_results[k].region_key] = <<1, 2, 3>>
    /\ \E r \in MsiRegions : history[r] = <<0, 0, 0>>

-----------------------------------------------------------------------------
(* Claims about the states that get insights, checked under SpecBio *)

\* the states of the regions of rows
StatesIn(rows) == {StateOf(rows[i].region_key) : i \in 1..Len(rows)}

\* results["insights_by_state"] holds an entry for state under period
HasInsightsEntry(state, period) ==
    \E e \in results.insights_by_state :
        e.state = state /\ e.period = period

\* an insights entry is stored for a state under a processed period exactly
\* when the state has a region in that period's MSI results
C21_EntryIffMsiRegion ==
    \A k \in 1..Len(results.msi) :
        \A state \in {"S1", "S2"} :
            HasInsightsEntry(state, results.msi[k].period)
                <=> state \in StatesIn(results.msi[k].rows)

\* C21: for every processed period an insights entry is stored for a state
\* exactly when the state has a region in the period's MSI results, and
\* every state with a region whose backlog_signal in the period's MBU load
\* results is above 0.3 has an insights entry for the period
C21_BacklogStateHasEntry ==
    /\ C21_EntryIffMsiRegion
    /\ \A k \in 1..Len(results.mbu_load) :
        \A i \in 1..Len(results.mbu_load[k].rows) :
            results.mbu_load[k].rows[i].backlog_signal > ((3 * ZScale) \div 10)
                => HasInsightsEntry(
                       StateOf(results.mbu_load[k].rows[i].region_key),
                       results.mbu_load[k].period)

=============================================================================
